---- MODULE Spec2Model ----
(***************************************************************************)
(* Model of the RabbitMQ to InfluxDB bridge (src/main.py):                 *)
(* RabbitMQToInfluxBridge.run, the two connect methods, subscription       *)
(* setup, the message callback with its Point transformation, the signal   *)
(* handler and cleanup.                                                    *)
(*                                                                         *)
(* Text that the code edits character by character (routing keys,          *)
(* measurement names, tag values) is a sequence of one-character strings;  *)
(* all other text is an atomic string.                                     *)
(***************************************************************************)
EXTENDS Integers, Sequences, FiniteSets, TLC

----------------------------------------------------------------------------
(* Bounds *)

\* Largest number of broker connection objects created in one run.
MaxConns == 3

\* Largest number of store client objects created in one run.
MaxClients == 2

\* Number of distinct bodies (the first ones of Bodies) delivered while the
\* whole run of the bridge is explored.
MaxRunBodies == 2

\* Largest count kept of the operations of one kind begun after the
\* cancellation flag was set.
MaxBegun == 2

----------------------------------------------------------------------------
(* JSON values and message bodies *)

\* A scalar JSON value as Python holds it after json.loads: its type, its
\* number when it is one, and its str() text (a character sequence for the
\* texts given as timestamp).
Scalar(ty, n, s) == [ty |-> ty, n |-> n, s |-> s]

\* A top-level JSON value; items are the <<key, Scalar>> pairs of an object
\* in iteration order.
JV(ty, n, s, items) == [ty |-> ty, n |-> n, s |-> s, items |-> items]

\* What json.loads yields for a text that is not JSON.
NotJson == JV("invalid", 0, "", << >>)

\* A message body: whether the bytes are valid UTF-8, their text, and the
\* value the text denotes as JSON.
Body(utf8, text, json) == [utf8 |-> utf8, text |-> text, json |-> json]

Bodies ==
  << Body(FALSE, "", NotJson),
     Body(TRUE, "hello world", NotJson),
     Body(TRUE, "{\"timestamp\":1,\"temp\":10}",
          JV("obj", 0, "", << <<"timestamp", Scalar("int", 1, "1")>>,
                              <<"temp", Scalar("int", 10, "10")>> >>)),
     Body(TRUE, "{\"temp\":10,\"temperature\":true,\"note\":null}",
          JV("obj", 0, "", << <<"temp", Scalar("int", 10, "10")>>,
                              <<"temperature", Scalar("bool", 1, "True")>>,
                              <<"note", Scalar("null", 0, "None")>> >>)),
     Body(TRUE, "{\"timestamp\":\"bad\"}",
          JV("obj", 0, "", << <<"timestamp", Scalar("str", 0, <<"b", "a", "d">>)>> >>)),
     Body(TRUE, "{\"timestamp\":\"1970-01-01T00:00:02Z\",\"ok\":true}",
          JV("obj", 0, "", << <<"timestamp", Scalar("str", 0,
                                  <<"1", "9", "7", "0", "-", "0", "1", "-", "0", "1", "T", "0", "0", ":", "0", "0", ":", "0", "2", "Z">>)>>,
                              <<"ok", Scalar("bool", 1, "True")>> >>)),
     Body(TRUE, "[1,2]", JV("arr", 0, "[1, 2]", << >>)),
     Body(TRUE, "5", JV("int", 5, "5", << >>)),
     Body(TRUE, "\"abc\"", JV("str", 0, "abc", << >>)),
     Body(TRUE, "null", JV("null", 0, "None", << >>)),
     Body(TRUE, "true", JV("bool", 1, "True", << >>)),
     Body(TRUE, "{\"timestamp\":\"2024-02-29T07:08:09+02:00\"}",
          JV("obj", 0, "", << <<"timestamp", Scalar("str", 0,
                                  <<"2", "0", "2", "4", "-", "0", "2", "-", "2", "9", "T", "0", "7", ":", "0", "8", ":", "0", "9", "+", "0", "2", ":", "0", "0">>)>> >>)),
     Body(TRUE, "{\"timestamp\":\"2023-02-29T00:00:00Z\"}",
          JV("obj", 0, "", << <<"timestamp", Scalar("str", 0,
                                  <<"2", "0", "2", "3", "-", "0", "2", "-", "2", "9", "T", "0", "0", ":", "0", "0", ":", "0", "0", "Z">>)>> >>)),
     Body(TRUE, "{\"timestamp\":null,\"v\":2}",
          JV("obj", 0, "", << <<"timestamp", Scalar("null", 0, "None")>>,
                              <<"v", Scalar("int", 2, "2")>> >>)),
     Body(TRUE, "{\"timestamp\":\"1970-01-01T00:00:01.500000+00:00\"}",
          JV("obj", 0, "", << <<"timestamp", Scalar("str", 0,
                                  <<"1", "9", "7", "0", "-", "0", "1", "-", "0", "1", "T", "0", "0", ":", "0", "0", ":", "0", "1", ".", "5", "0", "0", "0", "0", "0", "+", "0", "0", ":", "0", "0">>)>> >>)),
     Body(TRUE, "{\"timestamp\":2}",
          JV("obj", 0, "", << <<"timestamp", Scalar("int", 2, "2")>> >>)) >>

BodyIds == 1..Len(Bodies)

----------------------------------------------------------------------------
(* Configuration: the topics list *)

\* One entry of config['topics'].  measurement << >> and influx_bucket ""
\* stand for an absent (or empty, equally falsy) value; tags and the items
\* of field_mapping are <<key, value>> pairs in insertion order;
\* field_mapping_none is a field_mapping key present with a null value.
Topics ==
  << [exchange |-> <<"e","1">>, measurement |-> <<"e","n","v">>,
      tags |-> << <<"site", <<"x">> >>, <<"routing_key", <<"z">> >> >>,
      field_mapping_none |-> FALSE,
      field_mapping |-> << <<"temp", "temperature">> >>,
      influx_bucket |-> "b1"],
     [exchange |-> << >>, measurement |-> << >>,
      tags |-> << <<"exchange", <<"q">> >> >>,
      field_mapping_none |-> FALSE,
      field_mapping |-> << >>,
      influx_bucket |-> ""],
     [exchange |-> <<"e","3">>, measurement |-> << >>,
      tags |-> << >>,
      field_mapping_none |-> TRUE,
      field_mapping |-> << >>,
      influx_bucket |-> ""] >>

NumTopics == Len(Topics)

\* config['influxdb']['bucket']
DefaultBucket == "main"

\* Routing keys a delivery can carry.
RoutingKeys == { <<"a",".","b">>, <<"n",".","1",".","e">>, << >> }

\* Wall-clock instants datetime.utcnow() can return, in nanoseconds.
WallClock == {7, 8}

----------------------------------------------------------------------------
(* Point: the record built by the transformation *)

\* A datetime object: its fields, and its UTC offset in minutes when it is
\* aware.
DateTime(y, mo, d, h, mi, sec, micro, aware, offset) ==
  [year |-> y, month |-> mo, day |-> d, hour |-> h, minute |-> mi,
   second |-> sec, microsecond |-> micro, aware |-> aware, offset |-> offset]

NoDateTime == DateTime(0, 0, 0, 0, 0, 0, 0, FALSE, 0)

\* The value given to point.time: an integer of nanoseconds ("num"), a
\* parsed datetime ("iso"), or the datetime.utcnow() of wall-clock instant
\* ns ("now").
Instant(src, ns, dt) == [src |-> src, ns |-> ns, dt |-> dt]

\* Point(measurement): no time, no tags, no fields yet.
NewPoint(measurement) ==
  [measurement |-> measurement, time |-> Instant("unset", 0, NoDateTime),
   tags |-> << >>, fields |-> << >>]

\* The value standing for "no Point" (None).
NoPoint == NewPoint(<< >>)

\* point.tag(key, value) and point.field(name, value): assignment into a
\* dict, so a later write to the same key replaces the earlier one.
Put(map, key, value) ==
  [k \in (DOMAIN map) \cup {key} |-> IF k = key THEN value ELSE map[k]]

\* str.replace('.', '_')
ReplaceDots(s) == [i \in 1..Len(s) |-> IF s[i] = "." THEN "_" ELSE s[i]]

\* dict.get(key, default) on a dict given as <<key, value>> pairs.
RECURSIVE Lookup(_, _, _)
Lookup(pairs, key, default) ==
  IF pairs = << >> THEN default
  ELSE IF pairs[Len(pairs)][1] = key THEN pairs[Len(pairs)][2]
  ELSE Lookup(SubSeq(pairs, 1, Len(pairs) - 1), key, default)

HasKey(pairs, key) == \E i \in 1..Len(pairs) : pairs[i][1] = key

----------------------------------------------------------------------------
(* _message_callback: parsing *)

\* The fallback object {'raw_message': <body text>}.
RawMessage(text) == JV("obj", 0, "", << <<"raw_message", Scalar("str", 0, text)>> >>)

\* json.loads(body.decode('utf-8')) with its except json.JSONDecodeError
\* branch.  A body that is not valid UTF-8 makes decode raise
\* UnicodeDecodeError, which that branch does not catch.
ParseMessage(b) ==
  IF ~b.utf8 THEN [raised |-> TRUE, fallback |-> FALSE, data |-> NotJson]
  ELSE IF b.json.ty = "invalid"
       THEN [raised |-> FALSE, fallback |-> TRUE, data |-> RawMessage(b.text)]
       ELSE [raised |-> FALSE, fallback |-> FALSE, data |-> b.json]

----------------------------------------------------------------------------
(* _transform_to_influx_point *)

\* The measurement override is not consulted.
MeasurementIgnoresOverride(topic, rk) == ReplaceDots(rk)

\* topic_config.get('measurement') or method.routing_key.replace('.', '_')
Measurement(topic, rk) ==
  IF topic.measurement # << >> THEN topic.measurement ELSE ReplaceDots(rk)

\* isinstance(value, (int, float)): bool is a subclass of int.
IsNumber(v) == v.ty \in {"int", "float", "bool"}

\* str.replace('Z', '+00:00')
RECURSIVE ReplaceZ(_)
ReplaceZ(s) ==
  IF s = << >> THEN << >>
  ELSE (IF Head(s) = "Z" THEN <<"+", "0", "0", ":", "0", "0">> ELSE <<Head(s)>>)
       \o ReplaceZ(Tail(s))

Digits == <<"0", "1", "2", "3", "4", "5", "6", "7", "8", "9">>

IsDigit(c) == \E d \in 1..10 : Digits[d] = c

DigitVal(c) == (CHOOSE d \in 1..10 : Digits[d] = c) - 1

AllDigits(s, from, to) == \A i \in from..to : IsDigit(s[i])

\* The number written by the digits s[from..to].
RECURSIVE Num(_, _, _)
Num(s, from, to) ==
  IF to < from THEN 0 ELSE 10 * Num(s, from, to - 1) + DigitVal(s[to])

DaysIn(y, m) ==
  IF m = 2
  THEN (IF y % 4 = 0 /\ (y % 100 # 0 \/ y % 400 = 0) THEN 29 ELSE 28)
  ELSE IF m \in {4, 6, 9, 11} THEN 30 ELSE 31

\* datetime.fromisoformat: YYYY-MM-DD alone, or followed by one separator
\* character and HH:MM:SS, an optional fraction of 3 or 6 digits and an
\* optional offset +HH:MM or -HH:MM; the time part ends at the first sign
\* found in it.  Any other text, or a field out of range, raises ValueError.
FromIsoFormat(s) ==
  LET n == Len(s)
      Signs == {i \in 12..n : s[i] \in {"+", "-"}}
      zoneAt == IF Signs = {} THEN n + 1
                ELSE CHOOSE i \in Signs : \A j \in Signs : i <= j
      frac == zoneAt - 20
      dateOk == /\ n >= 10
                /\ AllDigits(s, 1, 4) /\ s[5] = "-" /\ AllDigits(s, 6, 7)
                /\ s[8] = "-" /\ AllDigits(s, 9, 10)
                /\ Num(s, 1, 4) >= 1
                /\ Num(s, 6, 7) \in 1..12
                /\ Num(s, 9, 10) \in 1..DaysIn(Num(s, 1, 4), Num(s, 6, 7))
      timeOk == /\ zoneAt >= 20
                /\ AllDigits(s, 12, 13) /\ s[14] = ":" /\ AllDigits(s, 15, 16)
                /\ s[17] = ":" /\ AllDigits(s, 18, 19)
                /\ Num(s, 12, 13) < 24 /\ Num(s, 15, 16) < 60
                /\ Num(s, 18, 19) < 60
                /\ frac \in {0, 4, 7}
                /\ frac > 0 => (s[20] = "." /\ AllDigits(s, 21, zoneAt - 1))
      zoneOk == \/ zoneAt = n + 1
                \/ /\ n = zoneAt + 5
                   /\ AllDigits(s, zoneAt + 1, zoneAt + 2)
                   /\ s[zoneAt + 3] = ":"
                   /\ AllDigits(s, zoneAt + 4, zoneAt + 5)
                   /\ Num(s, zoneAt + 1, zoneAt + 2) < 24
                   /\ Num(s, zoneAt + 4, zoneAt + 5) < 60
      micro == IF frac = 4 THEN 1000 * Num(s, 21, 23)
               ELSE IF frac = 7 THEN Num(s, 21, 26) ELSE 0
      offset == IF zoneAt = n + 1 THEN 0
                ELSE (IF s[zoneAt] = "-" THEN -1 ELSE 1)
                       * (60 * Num(s, zoneAt + 1, zoneAt + 2)
                            + Num(s, zoneAt + 4, zoneAt + 5))
  IN IF n = 10 /\ dateOk
     THEN [ok |-> TRUE,
           dt |-> DateTime(Num(s, 1, 4), Num(s, 6, 7), Num(s, 9, 10),
                           0, 0, 0, 0, FALSE, 0)]
     ELSE IF n >= 19 /\ dateOk /\ timeOk /\ zoneOk
     THEN [ok |-> TRUE,
           dt |-> DateTime(Num(s, 1, 4), Num(s, 6, 7), Num(s, 9, 10),
                           Num(s, 12, 13), Num(s, 15, 16), Num(s, 18, 19),
                           micro, zoneAt <= n, offset)]
     ELSE [ok |-> FALSE, dt |-> NoDateTime]

\* A numeric timestamp read as milliseconds.
ResolveTimeMillis(md, now) ==
  IF HasKey(md.items, "timestamp")
  THEN LET t == Lookup(md.items, "timestamp", Scalar("null", 0, "None"))
       IN IF IsNumber(t) THEN Instant("num", t.n * 1000000, NoDateTime)
          ELSE IF t.ty = "str" /\ FromIsoFormat(ReplaceZ(t.s)).ok
               THEN Instant("iso", 0, FromIsoFormat(ReplaceZ(t.s)).dt)
               ELSE Instant("now", now, NoDateTime)
  ELSE Instant("now", now, NoDateTime)

\* The value given to point.time.  A timestamp that is neither a number nor
\* a text that parses raises inside the inner try, whose bare except takes
\* the wall clock.
ResolveTime(md, now) ==
  IF HasKey(md.items, "timestamp")
  THEN LET t == Lookup(md.items, "timestamp", Scalar("null", 0, "None"))
       IN IF IsNumber(t) THEN Instant("num", t.n * 1000000000, NoDateTime)
          ELSE IF t.ty = "str" /\ FromIsoFormat(ReplaceZ(t.s)).ok
               THEN Instant("iso", 0, FromIsoFormat(ReplaceZ(t.s)).dt)
               ELSE Instant("now", now, NoDateTime)
  ELSE Instant("now", now, NoDateTime)

\* The loop over the static tags, in insertion order.
RECURSIVE StaticTags(_, _)
StaticTags(acc, pairs) ==
  IF pairs = << >> THEN acc
  ELSE StaticTags(Put(acc, Head(pairs)[1], Head(pairs)[2]), Tail(pairs))

\* Static tags applied after the two delivery tags.
BuildTagsStaticLast(topic, rk, ex) ==
  StaticTags(Put(Put(<< >>, "routing_key", rk), "exchange", ex), topic.tags)

\* The tag set: static tags first, then routing_key and exchange.
BuildTags(topic, rk, ex) ==
  Put(Put(StaticTags(<< >>, topic.tags), "routing_key", rk), "exchange", ex)

\* Every value is given as its str() text.
FieldValueAllStrings(v) == Scalar("str", 0, v.s)

\* The value given to point.field: numbers and booleans as they are,
\* anything else as str(value).
FieldValue(v) == IF IsNumber(v) THEN v ELSE Scalar("str", 0, v.s)

\* The loop over message_data.items().
RECURSIVE BuildFields(_, _, _)
BuildFields(acc, items, fm) ==
  IF items = << >> THEN acc
  ELSE LET key == Head(items)[1]
           value == Head(items)[2]
       IN IF key = "timestamp" THEN BuildFields(acc, Tail(items), fm)
          ELSE BuildFields(Put(acc, Lookup(fm, key, key), FieldValue(value)),
                           Tail(items), fm)

\* Whether the body of the transformation raises: 'timestamp' in <value> or
\* <value>.items() on a value that is not a dict, or field_mapping.get on a
\* null field_mapping once a key other than timestamp is met.
TransformRaises(md, topic) ==
  \/ md.ty # "obj"
  \/ /\ topic.field_mapping_none
     /\ \E i \in 1..Len(md.items) : md.items[i][1] # "timestamp"

\* The Point, or no Point when the except branch returns None.
Transform(md, topic, rk, ex, now) ==
  IF TransformRaises(md, topic) THEN [ok |-> FALSE, point |-> NoPoint]
  ELSE [ok |-> TRUE,
        point |-> [measurement |-> Measurement(topic, rk),
                   time |-> ResolveTime(md, now),
                   tags |-> BuildTags(topic, rk, ex),
                   fields |-> BuildFields(<< >>, md.items, topic.field_mapping)]]

----------------------------------------------------------------------------
(* _message_callback: the whole handler *)

\* topic_config.get('influx_bucket') or self.config['influxdb']['bucket']
Bucket(topic) == IF topic.influx_bucket # "" THEN topic.influx_bucket ELSE DefaultBucket

\* write_api.write is reached when parsing did not raise and "if point:" is
\* true (a Point object is always true, None is not).
WriteCalled(parseRaised, transformOk) == ~parseRaised /\ transformOk

\* A failed write falls through to basic_ack instead of leaving the try block.
AckCalledAfterFailedWrite(parseRaised, writeRaised) == ~parseRaised

\* basic_ack is reached when nothing before it in the try block raised.
AckCalled(parseRaised, writeRaised) == ~parseRaised /\ ~writeRaised

\* basic_nack(requeue=True) is the except branch of the whole try block.
NackCalled(parseRaised, writeRaised, ackRaised) ==
  parseRaised \/ writeRaised \/ ackRaised

\* One run of _message_callback for a delivery on the consumer of topic tid
\* with body Bodies[bid], method.routing_key rk and method.exchange ex, at
\* wall-clock instant now.  writeOk: the store accepts the write.  fault: the
\* state of the broker channel during the handler, "none" when basic_ack and
\* basic_nack go through, "chan" or "conn" when they raise a channel or a
\* connection error.
HandleMessage(tid, bid, rk, ex, now, writeOk, fault) ==
  LET parsed == ParseMessage(Bodies[bid])
      tr == IF parsed.raised THEN [ok |-> FALSE, point |-> NoPoint]
            ELSE Transform(parsed.data, Topics[tid], rk, ex, now)
      writeCalled == WriteCalled(parsed.raised, tr.ok)
      writeRaised == writeCalled /\ ~writeOk
      ackCalled == AckCalled(parsed.raised, writeRaised)
      ackRaised == ackCalled /\ fault # "none"
      nackCalled == NackCalled(parsed.raised, writeRaised, ackRaised)
  IN [handled |-> TRUE, queue |-> 0, topic |-> tid, body |-> bid, rk |-> rk, ex |-> ex,
      now |-> now,
      parseRaised |-> parsed.raised, fallback |-> parsed.fallback,
      transformFailed |-> ~parsed.raised /\ ~tr.ok,
      point |-> tr.point,
      writeCalled |-> writeCalled, writeRaised |-> writeRaised,
      bucket |-> IF writeCalled THEN Bucket(Topics[tid]) ELSE "",
      ackCalls |-> IF ackCalled THEN 1 ELSE 0,
      ackRaised |-> ackRaised,
      nackCalls |-> IF nackCalled THEN 1 ELSE 0,
      requeue |-> nackCalled,
      nackRaised |-> nackCalled /\ fault # "none",
      raised |-> IF nackCalled /\ fault # "none" THEN fault ELSE "none"]

\* The record of "no delivery handled yet".
NoDelivery ==
  [handled |-> FALSE, queue |-> 0, topic |-> 0, body |-> 0, rk |-> << >>,
   ex |-> << >>, now |-> 0,
   parseRaised |-> FALSE, fallback |-> FALSE, transformFailed |-> FALSE,
   point |-> NoPoint, writeCalled |-> FALSE, writeRaised |-> FALSE,
   bucket |-> "", ackCalls |-> 0, ackRaised |-> FALSE, nackCalls |-> 0,
   requeue |-> FALSE, nackRaised |-> FALSE, raised |-> "none"]

----------------------------------------------------------------------------
(* State of a RabbitMQToInfluxBridge and of the two services it talks to *)

VARIABLES
  pc,                   \* position of run()
  running,              \* self.running
  rabbitmq_connection,  \* self.rabbitmq_connection: a connection id, 0 = None
  rabbitmq_channel,     \* self.rabbitmq_channel: the id of its connection, 0 = None
  influx_client,        \* self.influx_client: a client id, 0 = None
  write_api,            \* self.write_api: the id of its client, 0 = None
  connOpen,             \* broker connections that are open (not is_closed)
  chanOpen,             \* channels that are open
  clientOpen,           \* store clients that are open
  nConns,               \* broker connection objects created so far
  nClients,             \* store client objects created so far
  consumers,            \* per channel, the consumers its basic_consume calls added
  pending,              \* an exception is propagating out of the try block
  result,               \* how run() ended: "none", "returned", "raised"
  last,                 \* outcome of the latest _message_callback run
  reconnect,            \* outcome of the latest mid-run _connect_rabbitmq
  cleanupRan,           \* _cleanup has been called
  startupPass,          \* how far the latest pass of the connect loop got
  initialSetups,        \* runs of _setup_subscriptions at the head of the try block
  afterCancel           \* operations begun while self.running was False

vars == << pc, running, rabbitmq_connection, rabbitmq_channel, influx_client,
           write_api, connOpen, chanOpen, clientOpen, nConns, nClients,
           consumers, pending, result, last, reconnect, cleanupRan,
           startupPass, initialSetups, afterCancel >>

histVars == << startupPass, initialSetups, afterCancel >>

\* The count of the operations of kind what begun after _signal_handler
\* ran, when one more begins now.
Begun(what) ==
  IF running THEN afterCancel
  ELSE [afterCancel EXCEPT ![what] = IF @ < MaxBegun THEN @ + 1 ELSE @]

rabbitVars == << rabbitmq_connection, rabbitmq_channel, connOpen, chanOpen, nConns >>
influxVars == << influx_client, write_api, clientOpen, nClients >>

\* __init__ (after the configuration was loaded)
Init ==
  /\ pc = "startup"
  /\ running = TRUE
  /\ rabbitmq_connection = 0
  /\ rabbitmq_channel = 0
  /\ influx_client = 0
  /\ write_api = 0
  /\ connOpen = {}
  /\ chanOpen = {}
  /\ clientOpen = {}
  /\ nConns = 0
  /\ nClients = 0
  /\ consumers = [c \in 1..MaxConns |-> << >>]
  /\ pending = FALSE
  /\ result = "none"
  /\ last = NoDelivery
  /\ reconnect = "none"
  /\ cleanupRan = FALSE
  /\ startupPass = "none"
  /\ initialSetups = 0
  /\ afterCancel = [rabbit |-> 0, influx |-> 0, setup |-> 0, pump |-> 0,
                    handled |-> 0]

\* _signal_handler: SIGINT or SIGTERM arrives while run() is executing.
Signal ==
  /\ pc # "done"
  /\ running' = FALSE
  /\ UNCHANGED histVars
  /\ UNCHANGED << pc, rabbitVars, influxVars, consumers, pending, result,
                  last, reconnect, cleanupRan >>

----------------------------------------------------------------------------
(* The connect methods *)

ConnectOutcomes == {"refused", "no_channel", "ok"}

\* _connect_rabbitmq.  "refused": BlockingConnection raises, nothing is
\* assigned.  "no_channel": the connection is assigned and channel() raises.
\* "ok": both are assigned.  The previous connection object is dropped as it
\* is, without close().  Returns whether the outcome is "ok".
ConnectRabbitmq(outcome) ==
  /\ outcome # "refused" => nConns < MaxConns
  /\ IF outcome = "refused"
     THEN UNCHANGED rabbitVars
     ELSE /\ nConns' = nConns + 1
          /\ rabbitmq_connection' = nConns + 1
          /\ connOpen' = connOpen \cup {nConns + 1}
          /\ IF outcome = "ok"
             THEN /\ rabbitmq_channel' = nConns + 1
                  /\ chanOpen' = chanOpen \cup {nConns + 1}
             ELSE UNCHANGED << rabbitmq_channel, chanOpen >>

InfluxOutcomes == {"no_client", "ping_failed", "ok"}

\* _connect_influxdb.  "no_client": the constructor raises, nothing is
\* assigned.  "ping_failed": client and write_api are assigned and a later
\* statement of the try block raises.  "ok": the method returns True.  The
\* previous client object is dropped as it is, without close().
ConnectInfluxdb(outcome) ==
  /\ outcome # "no_client" => nClients < MaxClients
  /\ IF outcome = "no_client"
     THEN UNCHANGED influxVars
     ELSE /\ nClients' = nClients + 1
          /\ influx_client' = nClients + 1
          /\ write_api' = nClients + 1
          /\ clientOpen' = clientOpen \cup {nClients + 1}

----------------------------------------------------------------------------
(* run(): startup *)

\* "while self.running:" of the connect loop, flag still set.
StartupCheck ==
  /\ pc = "startup"
  /\ running
  /\ pc' = "startup_rabbit"
  /\ UNCHANGED histVars
  /\ UNCHANGED << running, rabbitVars, influxVars, consumers, pending,
                  result, last, reconnect, cleanupRan >>

\* "while self.running:" of the connect loop, flag cleared: the loop ends.
StartupCancelled ==
  /\ pc = "startup"
  /\ ~running
  /\ pc' = "post_startup"
  /\ UNCHANGED histVars
  /\ UNCHANGED << running, rabbitVars, influxVars, consumers, pending,
                  result, last, reconnect, cleanupRan >>

\* "if not self._connect_rabbitmq():" of the connect loop.
StartupConnectRabbit ==
  /\ pc = "startup_rabbit"
  /\ \E outcome \in ConnectOutcomes :
       /\ ConnectRabbitmq(outcome)
       /\ pc' = IF outcome = "ok" THEN "startup_influx" ELSE "startup_sleep"
       /\ startupPass' = IF outcome = "ok" THEN "rabbit_ok" ELSE "failed"
  /\ afterCancel' = Begun("rabbit")
  /\ UNCHANGED initialSetups
  /\ UNCHANGED << running, influxVars, consumers, pending, result, last,
                  reconnect, cleanupRan >>

\* The connect loop is left after every _connect_influxdb, failed or not.
StartupAfterInfluxBreaks(outcome) == "post_startup"

\* Where the connect loop goes after _connect_influxdb: "break" when it
\* returned True, "time.sleep(5); continue" otherwise.
StartupAfterInflux(outcome) ==
  IF outcome = "ok" THEN "post_startup" ELSE "startup_sleep"

\* "if not self._connect_influxdb():" of the connect loop; success breaks
\* out of the loop.
StartupConnectInflux ==
  /\ pc = "startup_influx"
  /\ \E outcome \in InfluxOutcomes :
       /\ ConnectInfluxdb(outcome)
       /\ pc' = StartupAfterInflux(outcome)
       /\ startupPass' = IF outcome = "ok" THEN "both_ok" ELSE "failed"
  /\ afterCancel' = Begun("influx")
  /\ UNCHANGED initialSetups
  /\ UNCHANGED << running, rabbitVars, consumers, pending, result, last,
                  reconnect, cleanupRan >>

\* time.sleep(5); continue
StartupSleep ==
  /\ pc = "startup_sleep"
  /\ pc' = "startup"
  /\ UNCHANGED histVars
  /\ UNCHANGED << running, rabbitVars, influxVars, consumers, pending,
                  result, last, reconnect, cleanupRan >>

\* "if not self.running: return", flag cleared: run() returns at once.
ReturnCancelled ==
  /\ pc = "post_startup"
  /\ ~running
  /\ pc' = "done"
  /\ result' = "returned"
  /\ UNCHANGED histVars
  /\ UNCHANGED << running, rabbitVars, influxVars, consumers, pending,
                  last, reconnect, cleanupRan >>

\* "if not self.running: return", flag still set: enter the try block.
EnterTry ==
  /\ pc = "post_startup"
  /\ running
  /\ pc' = "setup"
  /\ UNCHANGED histVars
  /\ UNCHANGED << running, rabbitVars, influxVars, consumers, pending,
                  result, last, reconnect, cleanupRan >>

----------------------------------------------------------------------------
(* _setup_subscriptions *)

\* The topic configuration the callback of the i-th iteration is called
\* with, were "topic" the loop variable read when the callback runs: the
\* last one of the list.
BoundTopicLate(i) == NumTopics

\* The topic configuration the callback of the i-th iteration is called
\* with: "topic=topic_config" is a default argument, evaluated when the
\* lambda is created, so it is the topic of that iteration.
BoundTopic(i) == i

\* basic_consume of the i-th iteration: a consumer on the queue of topic i
\* (the topics have distinct queues) whose callback is the lambda.
Consumer(i) == [queue |-> i, topic |-> BoundTopic(i)]

\* The loop over the topics on self.rabbitmq_channel: the first k topics are
\* declared, bound and consumed; k < NumTopics when a channel operation of
\* topic k + 1 raises, which a closed channel does at once and an open one
\* does when the broker closes it.  Returns normally iff k = NumTopics.
\* Here basic_consume is called twice for each topic.
SetupSubscriptionsTwice(k) ==
  /\ rabbitmq_channel \notin chanOpen => k = 0
  /\ consumers' = [consumers EXCEPT
                     ![rabbitmq_channel] = @ \o [i \in 1..k |-> Consumer(i)]
                                             \o [i \in 1..k |-> Consumer(i)]]
  /\ chanOpen' = IF k < NumTopics THEN chanOpen \ {rabbitmq_channel} ELSE chanOpen

\* The loop over the topics on self.rabbitmq_channel: the first k topics are
\* declared, bound and consumed, with one basic_consume each; k < NumTopics
\* when a channel operation of topic k + 1 raises, which a closed channel
\* does at once and an open one does when the broker closes it.  Returns
\* normally iff k = NumTopics.
SetupSubscriptions(k) ==
  /\ rabbitmq_channel \notin chanOpen => k = 0
  /\ consumers' = [consumers EXCEPT
                     ![rabbitmq_channel] = @ \o [i \in 1..k |-> Consumer(i)]]
  /\ chanOpen' = IF k < NumTopics THEN chanOpen \ {rabbitmq_channel} ELSE chanOpen

----------------------------------------------------------------------------
(* run(): the try block *)

\* self._setup_subscriptions() at the head of the try block.  An exception
\* leaves the try block: only KeyboardInterrupt is caught there, and none is
\* raised once __init__ has installed _signal_handler for SIGINT.
InitialSetup ==
  /\ pc = "setup"
  /\ \E k \in 0..NumTopics :
       /\ SetupSubscriptions(k)
       /\ pc' = IF k = NumTopics THEN "loop" ELSE "cleanup"
       /\ pending' = (k < NumTopics)
  /\ initialSetups' = initialSetups + 1
  /\ afterCancel' = Begun("setup")
  /\ UNCHANGED startupPass
  /\ UNCHANGED << running, rabbitmq_connection, rabbitmq_channel, connOpen,
                  nConns, influxVars, result, last, reconnect, cleanupRan >>

\* "while True:" in the place of "while self.running:".
LoopCheckIgnoresFlag ==
  /\ pc = "loop"
  /\ pc' = "pump_call"
  /\ UNCHANGED histVars
  /\ UNCHANGED << running, rabbitVars, influxVars, consumers, pending,
                  result, last, reconnect, cleanupRan >>

\* "while self.running:" of the consume loop, flag still set.
LoopCheck ==
  /\ pc = "loop"
  /\ running
  /\ pc' = "pump_call"
  /\ UNCHANGED histVars
  /\ UNCHANGED << running, rabbitVars, influxVars, consumers, pending,
                  result, last, reconnect, cleanupRan >>

\* "while self.running:" of the consume loop, flag cleared: the loop ends
\* and the finally clause runs.
LoopCancelled ==
  /\ pc = "loop"
  /\ ~running
  /\ pc' = "cleanup"
  /\ UNCHANGED histVars
  /\ UNCHANGED << running, rabbitVars, influxVars, consumers, pending,
                  result, last, reconnect, cleanupRan >>

\* The body of the consume loop calls process_data_events(time_limit=1):
\* a pump slice begins.
PumpBegin ==
  /\ pc = "pump_call"
  /\ pc' = "pump"
  /\ afterCancel' = Begun("pump")
  /\ UNCHANGED << running, rabbitVars, influxVars, consumers, pending,
                  result, last, reconnect, cleanupRan, startupPass,
                  initialSetups >>

\* The consumers of self.rabbitmq_channel; none while it is None.
CurrentConsumers ==
  IF rabbitmq_channel \in 1..MaxConns THEN consumers[rabbitmq_channel] ELSE << >>

\* A delivery can reach the c-th consumer of the current channel when the
\* pumped connection and its channel are open.
CanDeliver(c) ==
  /\ rabbitmq_connection \in connOpen
  /\ rabbitmq_channel = rabbitmq_connection
  /\ rabbitmq_channel \in chanOpen
  /\ c \in 1..Len(CurrentConsumers)

\* process_data_events dispatches one delivery, with a body of bids and a
\* routing key of rks, at a wall-clock instant of nows, to one consumer of
\* the channel: its callback runs _message_callback with the topic bound to
\* it, on a message of the consumer's queue.  An exception of basic_nack
\* leaves the callback and process_data_events: a connection error reaches
\* "except AMQPConnectionError", any other error "except Exception".
DeliverFrom(bids, rks, nows) ==
  /\ pc = "pump"
  /\ \E c \in 1..Len(CurrentConsumers), bid \in bids, rk \in rks,
        now \in nows, writeOk \in BOOLEAN, fault \in {"none", "chan", "conn"} :
       /\ CanDeliver(c)
       /\ LET consumer == CurrentConsumers[c]
          IN \E ex \in {Topics[consumer.queue].exchange, << >>} :
               last' = [HandleMessage(consumer.topic, bid, rk, ex, now,
                                      writeOk, fault)
                          EXCEPT !.queue = consumer.queue]
       /\ pc' = CASE last'.raised = "none" -> "pump"
                  [] last'.raised = "chan" -> "sleep1"
                  [] last'.raised = "conn" -> "lost"
       /\ chanOpen' = IF fault = "none" THEN chanOpen
                      ELSE chanOpen \ {rabbitmq_channel}
       /\ connOpen' = IF fault = "conn" THEN connOpen \ {rabbitmq_connection}
                      ELSE connOpen
  /\ afterCancel' = Begun("handled")
  /\ UNCHANGED << startupPass, initialSetups >>
  /\ UNCHANGED << running, rabbitmq_connection, rabbitmq_channel, nConns,
                  influxVars, consumers, pending, result, reconnect, cleanupRan >>

\* A delivery during a run of the bridge: one of the first MaxRunBodies
\* bodies, under the dotted routing key, at the first wall-clock instant.
Deliver == DeliverFrom(1..MaxRunBodies, {<<"a", ".", "b">>}, {7})

\* A delivery with any body and routing key, at any wall-clock instant.
DeliverAny == DeliverFrom(BodyIds, RoutingKeys, WallClock)

\* process_data_events(time_limit=1) returns at the end of its time slice.
PumpReturn ==
  /\ pc = "pump"
  /\ rabbitmq_connection \in connOpen
  /\ pc' = "loop"
  /\ UNCHANGED histVars
  /\ UNCHANGED << running, rabbitVars, influxVars, consumers, pending,
                  result, last, reconnect, cleanupRan >>

\* process_data_events raises AMQPConnectionError: the connection was lost,
\* or was already closed when it was called.
PumpConnectionLost ==
  /\ pc = "pump"
  /\ pc' = "lost"
  /\ connOpen' = connOpen \ {rabbitmq_connection}
  /\ chanOpen' = chanOpen \ {rabbitmq_connection}
  /\ UNCHANGED histVars
  /\ UNCHANGED << running, rabbitmq_connection, rabbitmq_channel, nConns,
                  influxVars, consumers, pending, result, last, reconnect,
                  cleanupRan >>

\* "except AMQPConnectionError": self._connect_rabbitmq(), result ignored.
Reconnect ==
  /\ pc = "lost"
  /\ \E outcome \in ConnectOutcomes :
       /\ ConnectRabbitmq(outcome)
       /\ reconnect' = IF outcome = "ok" THEN "ok" ELSE "failed"
  /\ pc' = "resetup"
  /\ afterCancel' = Begun("rabbit")
  /\ UNCHANGED << startupPass, initialSetups >>
  /\ UNCHANGED << running, influxVars, consumers, pending, result, last,
                  cleanupRan >>

\* "except AMQPConnectionError": self._setup_subscriptions().  An exception
\* raised here is raised inside an except clause, so "except Exception" does
\* not catch it and it leaves the try block.
Resetup ==
  /\ pc = "resetup"
  /\ \E k \in 0..NumTopics :
       /\ SetupSubscriptions(k)
       /\ pc' = IF k = NumTopics THEN "loop" ELSE "cleanup"
       /\ pending' = (k < NumTopics)
  /\ afterCancel' = Begun("setup")
  /\ UNCHANGED << startupPass, initialSetups >>
  /\ UNCHANGED << running, rabbitmq_connection, rabbitmq_channel, connOpen,
                  nConns, influxVars, result, last, reconnect, cleanupRan >>

\* "except Exception": time.sleep(1)
Sleep1 ==
  /\ pc = "sleep1"
  /\ pc' = "loop"
  /\ UNCHANGED histVars
  /\ UNCHANGED << running, rabbitVars, influxVars, consumers, pending,
                  result, last, reconnect, cleanupRan >>

----------------------------------------------------------------------------
(* _cleanup, called from the finally clause *)

\* The connection is closed when it is set and not is_closed; closeRaises:
\* that close() raises (the transport is torn down all the same), which
\* leaves _cleanup before the store client is closed.  run() then ends,
\* with the pending or the new exception if any.
Cleanup ==
  /\ pc = "cleanup"
  /\ \E closeRaises \in BOOLEAN :
       /\ closeRaises => rabbitmq_connection \in connOpen
       /\ connOpen' = connOpen \ {rabbitmq_connection}
       /\ chanOpen' = chanOpen \ {rabbitmq_connection}
       /\ clientOpen' = IF closeRaises THEN clientOpen
                        ELSE clientOpen \ {influx_client}
       /\ result' = IF closeRaises \/ pending THEN "raised" ELSE "returned"
  /\ cleanupRan' = TRUE
  /\ pc' = "done"
  /\ UNCHANGED histVars
  /\ UNCHANGED << running, rabbitmq_connection, rabbitmq_channel, nConns,
                  influx_client, write_api, nClients, consumers, pending,
                  last, reconnect >>

----------------------------------------------------------------------------

Next ==
  \/ Signal
  \/ StartupCheck
  \/ StartupCancelled
  \/ StartupConnectRabbit
  \/ StartupConnectInflux
  \/ StartupSleep
  \/ ReturnCancelled
  \/ EnterTry
  \/ InitialSetup
  \/ LoopCheck
  \/ LoopCancelled
  \/ PumpBegin
  \/ Deliver
  \/ PumpReturn
  \/ PumpConnectionLost
  \/ Reconnect
  \/ Resetup
  \/ Sleep1
  \/ Cleanup

Spec == Init /\ [][Next]_vars

\* A step of run() other than the dispatch of a delivery inside a pump
\* slice.
RunStep ==
  \/ StartupCheck
  \/ StartupCancelled
  \/ StartupConnectRabbit
  \/ StartupConnectInflux
  \/ StartupSleep
  \/ ReturnCancelled
  \/ EnterTry
  \/ InitialSetup
  \/ LoopCheck
  \/ LoopCancelled
  \/ PumpBegin
  \/ PumpReturn
  \/ PumpConnectionLost
  \/ Reconnect
  \/ Resetup
  \/ Sleep1
  \/ Cleanup

\* run() on its single thread when every call it makes returns: the next
\* statement is executed, time.sleep ends, and process_data_events, called
\* with time_limit=1, ends its slice after finitely many deliveries.
FairSpec == Spec /\ WF_vars(RunStep)

----------------------------------------------------------------------------
(* The message handler alone, on every body *)

\* The bridge in steady state: both connects succeeded at the first attempt,
\* every topic is subscribed, process_data_events is running.
InitSteady ==
  /\ pc = "pump"
  /\ running = TRUE
  /\ rabbitmq_connection = 1
  /\ rabbitmq_channel = 1
  /\ influx_client = 1
  /\ write_api = 1
  /\ connOpen = {1}
  /\ chanOpen = {1}
  /\ clientOpen = {1}
  /\ nConns = 1
  /\ nClients = 1
  /\ consumers = [c \in 1..MaxConns |->
                    IF c = 1 THEN [i \in 1..NumTopics |-> Consumer(i)] ELSE << >>]
  /\ pending = FALSE
  /\ result = "none"
  /\ last = NoDelivery
  /\ reconnect = "none"
  /\ cleanupRan = FALSE
  /\ startupPass = "both_ok"
  /\ initialSetups = 1
  /\ afterCancel = [rabbit |-> 0, influx |-> 0, setup |-> 0, pump |-> 0,
                    handled |-> 0]

\* The first delivery of the steady state: what the handler does depends on
\* the delivery alone, not on the deliveries before it.
NextHandler == ~last.handled /\ DeliverAny

HandlerSpec == InitSteady /\ [][NextHandler]_vars

----------------------------------------------------------------------------
(* Properties of the message handler (HandlerSpec) *)

LastBody == Bodies[last.body]

\* No operation of the handler's delivery failed for a reason outside the
\* handler: the store took the write and the channel took the calls.
NoOutsideFailure == ~last.writeRaised /\ ~last.ackRaised /\ ~last.nackRaised

\* C1: a delivery whose transformation yields no Point is rejected with
\* requeue, is never acknowledged and causes no store write.
C1_TransformFailureRejected ==
  last.transformFailed =>
    /\ last.nackCalls = 1
    /\ last.requeue
    /\ last.ackCalls = 0
    /\ ~last.writeCalled

\* C2 as stated: a delivery whose store write raises is rejected with
\* requeue, never acknowledged, and the handler returns normally.
C2_WriteFailureReturnsNormally ==
  last.writeRaised =>
    /\ last.nackCalls = 1
    /\ last.requeue
    /\ last.ackCalls = 0
    /\ last.raised = "none"

\* C2 as amended: a delivery whose store write raises is rejected with
\* requeue exactly once and never acknowledged; the handler returns normally,
\* leaving process_data_events running, exactly when basic_nack does not
\* raise, and otherwise the error of basic_nack leaves the handler.
C2_WriteFailureRejected ==
  last.writeRaised =>
    /\ last.nackCalls = 1
    /\ last.requeue
    /\ last.ackCalls = 0
    /\ ~last.nackRaised => (last.raised = "none" /\ pc = "pump")
    /\ last.nackRaised => (last.raised # "none" /\ pc \in {"sleep1", "lost"})

\* A write failure handled with a working channel.
C2_Witness ==
  /\ last.writeRaised
  /\ ~last.nackRaised
  /\ last.nackCalls = 1
  /\ pc = "pump"

\* C3: a delivery whose Point was written is acknowledged exactly once and
\* never rejected, also when basic_ack itself raises.
C3_WrittenAckedNeverRejected ==
  (last.writeCalled /\ ~last.writeRaised) =>
    /\ last.ackCalls = 1
    /\ last.nackCalls = 0

\* C4: after the handler, exactly one of acknowledge and reject-with-requeue
\* has been invoked for the delivery.
C4_TokenConsumedOnce ==
  last.handled => last.ackCalls + last.nackCalls = 1

\* C8: a body that is text but not a JSON object yields a Point whose fields
\* are exactly {raw_message: body text}, which is written, and the delivery
\* is acknowledged when the write and the acknowledge go through.
C8_NonObjectBodyFallsBack ==
  (last.handled /\ LastBody.utf8 /\ LastBody.json.ty # "obj") =>
    /\ ~last.transformFailed
    /\ DOMAIN last.point.fields = {"raw_message"}
    /\ last.point.fields["raw_message"] = Scalar("str", 0, LastBody.text)
    /\ last.writeCalled
    /\ NoOutsideFailure => (last.ackCalls = 1 /\ last.nackCalls = 0)

\* C9: a body that is not valid UTF-8 still parses to the raw_message
\* fallback, is transformed and written, and is acknowledged, not rejected,
\* when the write and the acknowledge go through.
C9_ParseNeverFails ==
  (last.handled /\ ~LastBody.utf8) =>
    /\ ~last.parseRaised
    /\ last.fallback
    /\ last.writeCalled
    /\ NoOutsideFailure => (last.ackCalls = 1 /\ last.nackCalls = 0)

\* C10: every Point built carries routing_key and exchange equal to the
\* delivery's routing key and exchange, whatever the static tags, and every
\* other static tag unchanged.
C10_DeliveryTagsWin ==
  (last.handled /\ ~last.parseRaised /\ ~last.transformFailed) =>
    LET tags == last.point.tags
        static == Topics[last.topic].tags
    IN /\ DOMAIN tags = {static[i][1] : i \in 1..Len(static)}
                          \cup {"routing_key", "exchange"}
       /\ tags["routing_key"] = last.rk
       /\ tags["exchange"] = last.ex
       /\ \A i \in 1..Len(static) :
            static[i][1] \notin {"routing_key", "exchange"}
              => tags[static[i][1]] = static[i][2]

\* A Point built under a topic whose static tags define routing_key with
\* another value than the delivery's.
C10_Witness ==
  /\ last.handled
  /\ ~last.parseRaised
  /\ ~last.transformFailed
  /\ HasKey(Topics[last.topic].tags, "routing_key")
  /\ Lookup(Topics[last.topic].tags, "routing_key", << >>) # last.rk
  /\ last.point.tags["site"] = <<"x">>

----------------------------------------------------------------------------
(* Properties of run() (Spec) *)

\* C5: after a connection loss in steady state, subscription setup is re-run
\* only after a successful reconnect, and a failed reconnect does not end
\* the bridge.
C5_ResubscribeOnlyAfterReconnect ==
  /\ pc = "resetup" => reconnect = "ok"
  /\ (pc = "done" /\ running) => reconnect # "failed"

\* C6: run() ends only because the cancellation flag was cleared.
C6_EndsOnlyOnCancellation ==
  pc = "done" => ~running

\* C7: when run() has ended, _cleanup was executed and neither the broker
\* connection nor the store client the bridge holds is open.
C7_ClosedOnEveryExit ==
  (pc = "done" /\ (nConns > 0 \/ nClients > 0)) =>
    /\ cleanupRan
    /\ rabbitmq_connection \notin connOpen
    /\ influx_client \notin clientOpen

----------------------------------------------------------------------------
(* Properties of the Point built by the handler (HandlerSpec) *)

\* A Point was built for the latest delivery.
PointBuilt == last.handled /\ ~last.parseRaised /\ ~last.transformFailed

\* C11: for a JSON object body, the measurement name is the subscription's
\* override when one is set, and otherwise the delivery routing key with
\* every '.' replaced by '_'.
C11_MeasurementName ==
  (PointBuilt /\ LastBody.json.ty = "obj") =>
    LET m == last.point.measurement
        override == Topics[last.topic].measurement
    IN IF override # << >>
       THEN m = override
       ELSE /\ Len(m) = Len(last.rk)
            /\ \A i \in 1..Len(m) :
                 m[i] = IF last.rk[i] = "." THEN "_" ELSE last.rk[i]

\* An object body under a subscription with an override, delivered with a
\* routing key that has dots.
C11_Witness ==
  /\ PointBuilt
  /\ LastBody.json.ty = "obj"
  /\ Topics[last.topic].measurement = <<"e", "n", "v">>
  /\ last.rk = <<"n", ".", "1", ".", "e">>
  /\ last.point.measurement = <<"e", "n", "v">>

\* C12: no Point with an empty measurement name is built or written.
C12_MeasurementNeverEmpty ==
  PointBuilt => last.point.measurement # << >>

\* The timestamp entry of the latest body, a JSON object.
LastTimestamp == Lookup(LastBody.json.items, "timestamp", Scalar("null", 0, "None"))

\* C13: a numeric timestamp t gives exactly t * 1,000,000,000 nanoseconds; a
\* text that parses as ISO-8601, a trailing Z read as +00:00, gives the
\* parsed date-time; a text that does not parse, or no timestamp key, gives
\* the wall-clock instant of the handler run; and no timestamp makes the
\* transformation fail.
C13_TimestampResolution ==
  /\ (last.handled /\ LastBody.json.ty = "obj"
        /\ ~Topics[last.topic].field_mapping_none) => ~last.transformFailed
  /\ (PointBuilt /\ LastBody.json.ty = "obj") =>
       LET time == last.point.time
           t == LastTimestamp
           wallClock == Instant("now", last.now, NoDateTime)
       IN IF ~HasKey(LastBody.json.items, "timestamp") THEN time = wallClock
          ELSE IF t.ty = "int"
          THEN time = Instant("num", t.n * 1000000000, NoDateTime)
          ELSE IF t.ty = "str"
          THEN IF t.s = <<"1", "9", "7", "0", "-", "0", "1", "-", "0", "1", "T",
                          "0", "0", ":", "0", "0", ":", "0", "2", "Z">>
               THEN time = Instant("iso", 0, DateTime(1970, 1, 1, 0, 0, 2, 0, TRUE, 0))
               ELSE IF t.s = <<"2", "0", "2", "4", "-", "0", "2", "-", "2", "9", "T",
                               "0", "7", ":", "0", "8", ":", "0", "9",
                               "+", "0", "2", ":", "0", "0">>
               THEN time = Instant("iso", 0, DateTime(2024, 2, 29, 7, 8, 9, 0, TRUE, 120))
               ELSE IF t.s = <<"1", "9", "7", "0", "-", "0", "1", "-", "0", "1", "T",
                               "0", "0", ":", "0", "0", ":", "0", "1", ".",
                               "5", "0", "0", "0", "0", "0",
                               "+", "0", "0", ":", "0", "0">>
               THEN time = Instant("iso", 0, DateTime(1970, 1, 1, 0, 0, 1, 500000, TRUE, 0))
               ELSE time = wallClock
          ELSE TRUE

\* A Point whose time comes from a numeric timestamp of 2 seconds.
C13_Witness ==
  /\ PointBuilt
  /\ LastBody.json.ty = "obj"
  /\ LastTimestamp = Scalar("int", 2, "2")
  /\ last.point.time.ns = 2000000000

\* The field name a source key is stored under.
MappedName(key) == Lookup(Topics[last.topic].field_mapping, key, key)

\* C14: every key of the parsed object other than timestamp yields a field
\* under its mapped name, holding the value itself when it is a number or a
\* boolean and its text otherwise; the timestamp key yields no field; of two
\* keys mapped to one name the later one gives the value.
C14_FieldMapping ==
  (PointBuilt /\ LastBody.json.ty = "obj") =>
    LET items == LastBody.json.items
        fields == last.point.fields
        Source == {i \in 1..Len(items) : items[i][1] # "timestamp"}
    IN /\ DOMAIN fields = {MappedName(items[i][1]) : i \in Source}
       /\ \A i \in Source :
            (\A j \in Source : j > i => MappedName(items[j][1]) # MappedName(items[i][1]))
              => LET v == items[i][2]
                     f == fields[MappedName(items[i][1])]
                 IN IF v.ty \in {"int", "float", "bool"}
                    THEN f.ty = v.ty /\ f.n = v.n
                    ELSE f.ty = "str" /\ f.s = v.s

\* The body {temp, temperature, note} under the rename temp -> temperature:
\* the later key temperature wins, the null is stored as text.
C14_Witness ==
  /\ PointBuilt
  /\ LastBody.json.ty = "obj"
  /\ MappedName("temp") = "temperature"
  /\ HasKey(LastBody.json.items, "temperature")
  /\ last.point.fields["temperature"] = Scalar("bool", 1, "True")
  /\ last.point.fields["note"] = Scalar("str", 0, "None")

----------------------------------------------------------------------------
(* Subscriptions *)

\* C15: a message delivered on the queue of subscription i is transformed
\* with the configuration of subscription i (measurement override, static
\* tags, rename map) and written to its bucket, after the initial setup and
\* after every re-run of setup.
C15_OwnTopicConfiguration ==
  last.handled =>
    /\ last.topic = last.queue
    /\ last.writeCalled => last.bucket = Bucket(Topics[last.queue])
    /\ PointBuilt =>
         LET data == ParseMessage(Bodies[last.body]).data
             own == Transform(data, Topics[last.queue], last.rk, last.ex, last.now)
         IN /\ own.ok
            /\ last.point = own.point

\* C15 happens: after a successful reconnect and re-run of setup, a message
\* of the first subscription's queue was transformed and written.
C15_Witness ==
  /\ last.handled
  /\ reconnect = "ok"
  /\ rabbitmq_channel > 1
  /\ last.queue = 1
  /\ last.queue # NumTopics
  /\ PointBuilt
  /\ last.writeCalled
  /\ last.bucket = "b1"

----------------------------------------------------------------------------
(* Startup and cancellation *)

\* The positions of run() inside the try block, before the finally clause.
InTry == pc \in {"setup", "loop", "pump_call", "pump", "lost", "resetup", "sleep1"}

\* C16: the connect loop of startup is left only after a pass in which both
\* connects succeeded, or with the cancellation flag set; subscription setup
\* and the pump slices happen only after such a pass; and setup runs exactly
\* once at startup: not before the try block, once from then on.
C16_StartupUntilBothConnected ==
  /\ pc = "post_startup" => (startupPass = "both_ok" \/ ~running)
  /\ InTry => startupPass = "both_ok"
  /\ initialSetups > 0 => startupPass = "both_ok"
  /\ initialSetups = IF pc \in {"startup", "startup_rabbit", "startup_influx",
                                "startup_sleep", "post_startup", "setup"}
                     THEN 0
                     ELSE IF InTry \/ cleanupRan \/ pc = "cleanup" THEN 1
                     ELSE 0

\* C16 happens: startup went through failed passes (a third broker
\* connection is the current one), then both connects succeeded, setup ran
\* once and a pump slice is running.
C16_Witness ==
  /\ pc = "pump"
  /\ nConns = 3
  /\ rabbitmq_connection = 3
  /\ reconnect = "none"
  /\ startupPass = "both_ok"
  /\ initialSetups = 1

\* C17: once the cancellation flag has been set it is never cleared, and
\* from then on no broker connect, no store connect and no subscription
\* setup is begun.
C17_NothingBegunAfterCancel ==
  /\ afterCancel.rabbit = 0
  /\ afterCancel.influx = 0
  /\ afterCancel.setup = 0

\* C18: _cleanup never raises, and the store client is closed by it even
\* when closing the broker connection failed: once _cleanup has run, run()
\* ended with an exception only if one was already propagating, and the
\* store client the bridge holds is not open.
C18_CloseBestEffort ==
  cleanupRan =>
    /\ ~pending => result = "returned"
    /\ influx_client \notin clientOpen

----------------------------------------------------------------------------
(* Consumers *)

\* self.rabbitmq_channel is the open channel of the open current connection.
ChannelLive ==
  /\ rabbitmq_connection \in connOpen
  /\ rabbitmq_channel = rabbitmq_connection
  /\ rabbitmq_channel \in chanOpen

\* The consumers registered on channel ch for the queue of topic q.
ConsumersOf(ch, q) ==
  {c \in 1..Len(consumers[ch]) : consumers[ch][c].queue = q}

\* C19: in the consume loop, after the initial setup and after every
\* reconnect and re-run of setup, each topic has exactly one consumer on the
\* current live channel; and no channel ever carries two consumers of one
\* topic.
C19_OneConsumerPerTopic ==
  /\ (pc \in {"loop", "pump_call", "pump", "sleep1"} /\ ChannelLive) =>
       \A q \in 1..NumTopics : Cardinality(ConsumersOf(rabbitmq_channel, q)) = 1
  /\ \A ch \in 1..MaxConns, q \in 1..NumTopics :
       Cardinality(ConsumersOf(ch, q)) <= 1

\* C19 happens: two reconnect-and-resubscribe cycles succeeded after the
\* initial setup, and a pump slice runs on the third channel.
C19_Witness ==
  /\ pc = "pump"
  /\ ChannelLive
  /\ rabbitmq_channel = 3
  /\ reconnect = "ok"
  /\ Len(consumers[1]) = NumTopics
  /\ Len(consumers[2]) = NumTopics
  /\ Len(consumers[3]) = NumTopics

----------------------------------------------------------------------------
(* Termination after cancellation (FairSpec) *)

\* _signal_handler only sets the flag: the statement in flight, a transform
\* or a store write included, goes on from where it was.
SignalOnlySetsFlag ==
  running' # running =>
    /\ running' = FALSE
    /\ UNCHANGED << pc, rabbitVars, influxVars, consumers, pending, result,
                    last, reconnect, cleanupRan, histVars >>

\* C20: when the cancellation flag is set at any point and every call
\* returns, run() eventually ends; the signal changes nothing but the flag,
\* so that the statement in flight is completed; and at most one pump slice
\* begins after the flag was set.
C20_CancellationEndsRun ==
  /\ (~running ~> pc = "done")
  /\ [][SignalOnlySetsFlag]_vars
  /\ [](afterCancel.pump <= 1)

\* C20 happens: the flag was set between the loop condition and the pump
\* call, the slice began all the same, a message was handled in it and
\* written to the store, and run() returned.
C20_Witness ==
  /\ pc = "done"
  /\ ~running
  /\ afterCancel.pump = 1
  /\ afterCancel.handled > 0
  /\ last.writeCalled /\ ~last.writeRaised /\ last.ackCalls = 1
  /\ result = "returned"

----------------------------------------------------------------------------
(* Open endpoints *)

\* C21: at most one broker connection and at most one store client are open
\* at any time: when a connect opens a new one, those opened by earlier
\* attempts have been closed.
C21_AtMostOneOpen ==
  /\ Cardinality(connOpen) <= 1
  /\ Cardinality(clientOpen) <= 1

====
